---- MODULE Spec2Model ----
(***************************************************************************)
(* Model of httpmock (transport.go): the MockTransport registry and its    *)
(* RoundTrip dispatch, and the package-level activation machinery          *)
(* (Activate / ActivateNonDefault / Deactivate with the `queue` gate).     *)
(*                                                                         *)
(* The specifications share the variables:                                 *)
(*   Spec      concurrent callers of Activate/ActivateNonDefault/          *)
(*             Deactivate, one step per atomic operation or critical       *)
(*             section of transport.go, every Deactivate closing the       *)
(*             caller's own session;                                       *)
(*   SpecFree  as Spec, and Deactivate is also called while inactive;      *)
(*   SpecWide  as Spec, with one caller more;                              *)
(*   SpecPkg   as Spec, with the package-level RegisterResponder/          *)
(*             RegisterNoResponder/Reset called at any moment;             *)
(*   SpecRT    a single MockTransport driven sequentially through          *)
(*             RegisterResponder/RegisterNoResponder/Reset/RoundTrip;      *)
(*   SpecMu    one RoundTrip executed step by step while other goroutines  *)
(*             change the registry of the same MockTransport.              *)
(* Disabled() (not part of transport.go) is taken to be false throughout.  *)
(***************************************************************************)
EXTENDS Naturals, Sequences, FiniteSets, TLC

VARIABLES
    \* ---- package-level state of transport.go
    isLocked,          \* *queue.isLocked (int32)
    pc,                \* position of each caller
    isL,               \* Deactivate's local isL
    kind,              \* which call opened the caller's session
    cl,                \* the client passed to ActivateNonDefault
    DefaultTransport,  \* http.DefaultTransport
    Initial,           \* Transports.Initial
    oldTransport,      \* oldHTTPGlobals.transport
    oldClient,         \* oldHTTPGlobals.client
    clientTransport,   \* client.Transport of each custom client
    calls,             \* number of operations started so far (see MaxCalls)
    \* ---- Transports.Default / any MockTransport
    responders,        \* m.responders: key string -> Responder
    noResponder,       \* m.noResponder
    \* ---- history (not read by any modelled code)
    ambientAtCall,     \* http.DefaultTransport when the latest Activate was called
    lastCapture,       \* latest non-mock http.DefaultTransport an Activate found
    clientAtCall,      \* client.Transport when the caller's ActivateNonDefault was called
    sawHolder,         \* whether some caller was inside a session when this caller's
                       \* activation call started
    waitsFor,          \* the callers that were inside a session when this caller's
                       \* activation call started and have not called Deactivate since
    raced,             \* whether two callers have both loaded queue.isLocked = 0 before
                       \* either of them stored 1 (both were let through the gate)
    registered,        \* (method, url) -> Responder as registered since the last Reset
    mu,                \* m.mu: "free", or "RoundTrip" while the RoundTrip in progress
                       \* holds it (every other method holds it for one step only)
    rpc,               \* position of the RoundTrip call that is executed step by step
    rreq,              \* its request
    rresp,             \* its local variable `responder`, then the Responder it runs
    allowed,           \* what a RoundTrip executed in one piece would have selected in
                       \* the registry states that existed since that call started
    resetFrom,         \* whether Reset was the latest change of the registry, and the
                       \* pairs that were registered before it
    last               \* the operation that returned most recently, with its result

vars == <<isLocked, pc, isL, kind, cl, DefaultTransport,
          Initial, oldTransport, oldClient, clientTransport, calls, responders,
          noResponder, ambientAtCall, lastCapture, clientAtCall, sawHolder,
          waitsFor, raced, registered, resetFrom, mu, rpc, rreq, rresp, allowed,
          last>>

actVars == <<isLocked, pc, isL, kind, cl, DefaultTransport,
             Initial, oldTransport, oldClient, clientTransport, calls,
             ambientAtCall, lastCapture, clientAtCall, sawHolder, waitsFor,
             raced>>

regVars == <<responders, noResponder, registered, resetFrom>>

rtVars == <<mu, rpc, rreq, rresp, allowed>>

(***************************************************************************)
(* Bounds                                                                  *)
(***************************************************************************)
NumCallers == 2

\* how many operations are started in one run: calls of Activate and
\* ActivateNonDefault, calls of Deactivate with nothing active, calls of the
\* package-level RegisterResponder/RegisterNoResponder/Reset, and
\* replacements of a transport by user code (a session's own Deactivate is
\* not counted)
MaxCalls == 3

Callers == 1..NumCallers

\* Go's nil (a nil Responder, a nil *http.Client, a nil RoundTripper)
Nil == "nil"

\* Transports.Default, the controller's Mock Transport
Mock == "Mock"

\* real transports that can be the ambient http.DefaultTransport
RealTransports == {"T1", "T2"}

\* custom clients, and the transports user code gives them
Clients == {"c1"}

ClientTransports == {"X1", "X2"}


\* how many (method, url) pairs are registered at a time
MaxBindings == 2

\* strings are sequences of one-character strings
SP == <<" ">>

QM == <<"?">>

\* HTTP methods of requests and registrations (no validation: a method may
\* contain a space)
Methods == {<<"G">>, <<"P">>, <<"G", " ", "a">>}

\* the part of a request URL before any '?' (net/url writes an opaque part
\* as it is, so it may contain a space)
Paths == {<<"b">>, <<"a", " ", "b">>}

\* the query of a request URL: none, or the text after the first '?'
NoQuery == "none"

Queries == {NoQuery, <<"q">>, <<"q", "?", "q">>}

\* the request URLs (*url.URL values)
URLs == [path : Paths, query : Queries]

\* the requests handed to RoundTrip
Requests == [method : Methods, url : URLs]

\* the url strings passed to RegisterResponder
RegURLs == {<<"b">>, <<"a", " ", "b">>, <<"b", "?", "q">>}

\* the Responders user code registers; Nil is Go's nil Responder
Responders == {"G1", "G2"}

\* the Responders user code registers as the catch-all
NoResponders == {"R"}

NoOp == [op |-> "none"]

\* no Reset since the latest registration
NoReset == [done |-> FALSE, pairs |-> {}]

(***************************************************************************)
(* The activation machinery: transport.go lines 131-266.                   *)
(* A caller is "out" (no call in progress, no session), inside one of the  *)
(* steps of Activate/ActivateNonDefault (a_..), "in" its session (its      *)
(* activation call has returned, its Deactivate has not started) or inside *)
(* one of the steps of Deactivate (d_..).                                  *)
(***************************************************************************)
\* the package-level state after initialisation, with S the callers of the run
InitActOf(S) ==
    /\ isLocked = 0
    /\ pc = [c \in S |-> "out"]
    /\ isL = [c \in S |-> 0]
    /\ kind = [c \in S |-> "none"]
    /\ cl = [c \in S |-> Nil]
    /\ DefaultTransport = "T1"
    /\ Initial = "T1"
    /\ oldTransport = Nil
    /\ oldClient = Nil
    /\ clientTransport = [k \in Clients |-> "X1"]
    /\ calls = 0
    /\ ambientAtCall = Nil
    /\ lastCapture = Nil
    /\ clientAtCall = [c \in S |-> Nil]
    /\ sawHolder = [c \in S |-> FALSE]
    /\ waitsFor = [c \in S |-> {}]
    /\ raced = FALSE

InitAct == InitActOf(Callers)

InitReg ==
    /\ responders = << >>
    /\ noResponder = Nil
    /\ registered = << >>
    /\ resetFrom = NoReset
    /\ mu = "free"
    /\ rpc = "idle"
    /\ rreq = Nil
    /\ rresp = Nil
    /\ allowed = {}

Init ==
    /\ InitAct
    /\ InitReg
    /\ last = NoOp

AllOut == \A c \in DOMAIN pc : pc[c] = "out"

\* no Activate/ActivateNonDefault/Deactivate call is in progress
NoCallInProgress == \A c \in DOMAIN pc : pc[c] \in {"out", "in"}

\* where the gate sends a caller that loaded the value v of queue.isLocked:
\* if atomic.LoadInt32(queue.isLocked) >= 1 { ... } else { ... }
GateBranch(v) == IF v >= 1 THEN "a_store2" ELSE "a_store1"

\* a caller calls Activate(): up to and including the load of queue.isLocked
ActivateLoad(c) ==
    /\ pc[c] = "out"
    /\ calls < MaxCalls
    /\ calls' = calls + 1
    /\ pc' = [pc EXCEPT ![c] = GateBranch(isLocked)]
    /\ kind' = [kind EXCEPT ![c] = "default"]
    /\ ambientAtCall' = DefaultTransport
    /\ UNCHANGED <<isLocked, isL, cl, DefaultTransport, Initial,
                   oldTransport, oldClient, clientTransport, lastCapture,
                   clientAtCall, last>>
    /\ sawHolder' = [sawHolder EXCEPT ![c] = \E a \in DOMAIN pc : pc[a] = "in"]
    /\ waitsFor' = [waitsFor EXCEPT ![c] = {a \in DOMAIN pc : pc[a] = "in"}]
    /\ raced' = (raced \/ (isLocked = 0 /\ \E a \in DOMAIN pc : pc[a] = "a_store1"))
    /\ UNCHANGED <<regVars, rtVars>>

\* a caller calls ActivateNonDefault(k): up to and including the load of
\* queue.isLocked
ActivateNonDefaultLoad(c, k) ==
    /\ pc[c] = "out"
    /\ calls < MaxCalls
    /\ calls' = calls + 1
    /\ pc' = [pc EXCEPT ![c] = GateBranch(isLocked)]
    /\ kind' = [kind EXCEPT ![c] = "nondefault"]
    /\ cl' = [cl EXCEPT ![c] = k]
    /\ clientAtCall' = [clientAtCall EXCEPT ![c] = clientTransport[k]]
    /\ UNCHANGED <<isLocked, isL, DefaultTransport, Initial,
                   oldTransport, oldClient, clientTransport, ambientAtCall,
                   lastCapture, last>>
    /\ sawHolder' = [sawHolder EXCEPT ![c] = \E a \in DOMAIN pc : pc[a] = "in"]
    /\ waitsFor' = [waitsFor EXCEPT ![c] = {a \in DOMAIN pc : pc[a] = "in"}]
    /\ raced' = (raced \/ (isLocked = 0 /\ \E a \in DOMAIN pc : pc[a] = "a_store1"))
    /\ UNCHANGED <<regVars, rtVars>>

\* atomic.StoreInt32(queue.isLocked, 2), then the caller blocks on <-queue.wait
GateStoreWaiting(c) ==
    /\ pc[c] = "a_store2"
    /\ isLocked' = 2
    /\ pc' = [pc EXCEPT ![c] = "a_wait"]
    /\ UNCHANGED <<isL, kind, cl, DefaultTransport,
                   Initial, oldTransport, oldClient, clientTransport, ambientAtCall,
                   lastCapture, clientAtCall, last>>
    /\ UNCHANGED <<sawHolder, waitsFor>>
    /\ UNCHANGED raced
    /\ UNCHANGED <<calls, regVars, rtVars>>

\* atomic.StoreInt32(queue.isLocked, 1)
GateStoreHeld(c) ==
    /\ pc[c] = "a_store1"
    /\ isLocked' = 1
    /\ pc' = [pc EXCEPT ![c] = "a_body"]
    /\ UNCHANGED <<isL, kind, cl, DefaultTransport,
                   Initial, oldTransport, oldClient, clientTransport, ambientAtCall,
                   lastCapture, clientAtCall, last>>
    /\ UNCHANGED <<sawHolder, waitsFor>>
    /\ UNCHANGED raced
    /\ UNCHANGED <<calls, regVars, rtVars>>

\* queue.wait is unbuffered: the send in Deactivate and the receive in
\* Activate/ActivateNonDefault complete together
HandOff(d, a) ==
    /\ d # a
    /\ pc[d] = "d_send"
    /\ pc[a] = "a_wait"
    /\ pc' = [pc EXCEPT ![d] = "d_body", ![a] = "a_body"]
    /\ UNCHANGED <<isLocked, isL, kind, cl, DefaultTransport,
                   Initial, oldTransport, oldClient, clientTransport, ambientAtCall,
                   lastCapture, clientAtCall, last>>
    /\ UNCHANGED <<sawHolder, waitsFor>>
    /\ UNCHANGED raced
    /\ UNCHANGED <<calls, regVars, rtVars>>

\* ActivateBody without the double-activation guard of line 196: the saved
\* original is overwritten even when the mock is already installed
ActivateBodyNoGuard(c) ==
    /\ pc[c] = "a_body"
    /\ kind[c] = "default"
    /\ Initial' = DefaultTransport
    /\ lastCapture' = IF DefaultTransport # Mock THEN DefaultTransport ELSE lastCapture
    /\ DefaultTransport' = Mock
    /\ pc' = [pc EXCEPT ![c] = "in"]
    /\ last' = [op |-> "Activate", caller |-> c, found |-> DefaultTransport]
    /\ UNCHANGED <<isLocked, isL, kind, cl, oldTransport, oldClient,
                   clientTransport, ambientAtCall, clientAtCall>>
    /\ UNCHANGED raced
    /\ UNCHANGED <<sawHolder, waitsFor>>
    /\ UNCHANGED <<calls, regVars, rtVars>>

\* Activate's critical section, from Transports.Lock() to the deferred
\* Transports.Unlock(): one step, since every access to the data it touches
\* is made with the same mutex held
ActivateBody(c) ==
    /\ pc[c] = "a_body"
    /\ kind[c] = "default"
    /\ Initial' = IF DefaultTransport # Mock THEN DefaultTransport ELSE Initial
    /\ lastCapture' = IF DefaultTransport # Mock THEN DefaultTransport ELSE lastCapture
    /\ DefaultTransport' = Mock
    /\ pc' = [pc EXCEPT ![c] = "in"]
    /\ last' = [op |-> "Activate", caller |-> c, found |-> DefaultTransport]
    /\ UNCHANGED <<isLocked, isL, kind, cl, oldTransport, oldClient,
                   clientTransport, ambientAtCall, clientAtCall>>
    /\ UNCHANGED raced
    /\ UNCHANGED <<sawHolder, waitsFor>>
    /\ UNCHANGED <<calls, regVars, rtVars>>

\* ActivateNonDefault's critical section, from oldHTTPGlobals.Lock() and
\* Transports.Lock() to the deferred unlocks, as one step
ActivateNonDefaultBody(c) ==
    /\ pc[c] = "a_body"
    /\ kind[c] = "nondefault"
    /\ oldTransport' = clientTransport[cl[c]]
    /\ oldClient' = cl[c]
    /\ clientTransport' = [clientTransport EXCEPT ![cl[c]] = Mock]
    /\ pc' = [pc EXCEPT ![c] = "in"]
    /\ last' = [op |-> "ActivateNonDefault", caller |-> c]
    /\ UNCHANGED <<isLocked, isL, kind, cl, DefaultTransport, Initial,
                   ambientAtCall, lastCapture, clientAtCall, sawHolder, waitsFor,
             raced>>
    /\ UNCHANGED raced
    /\ UNCHANGED <<sawHolder, waitsFor>>
    /\ UNCHANGED <<calls, regVars, rtVars>>

\* where Deactivate goes after loading the value v of queue.isLocked:
\* if isL := atomic.LoadInt32(queue.isLocked); isL >= 1 { ... }
ReleaseBranch(v) == IF v >= 1 THEN "d_store0" ELSE "d_body"

\* a caller inside its session calls Deactivate(): up to and including the
\* load of queue.isLocked
DeactivateLoad(c) ==
    /\ pc[c] = "in"
    /\ isL' = [isL EXCEPT ![c] = isLocked]
    /\ pc' = [pc EXCEPT ![c] = ReleaseBranch(isLocked)]
    /\ UNCHANGED <<isLocked, kind, cl, DefaultTransport,
                   Initial, oldTransport, oldClient, clientTransport, ambientAtCall,
                   lastCapture, clientAtCall, last>>
    /\ waitsFor' = [b \in DOMAIN pc |-> waitsFor[b] \ {c}]
    /\ UNCHANGED sawHolder
    /\ UNCHANGED raced
    /\ UNCHANGED <<calls, regVars, rtVars>>

\* a caller calls Deactivate() while nothing is active (DeactivateAndReset at
\* the top of a test): up to and including the load of queue.isLocked
DeactivateInactiveLoad(c) ==
    /\ AllOut
    /\ calls < MaxCalls
    /\ calls' = calls + 1
    /\ isL' = [isL EXCEPT ![c] = isLocked]
    /\ pc' = [pc EXCEPT ![c] = ReleaseBranch(isLocked)]
    /\ UNCHANGED <<isLocked, kind, cl, DefaultTransport,
                   Initial, oldTransport, oldClient, clientTransport, ambientAtCall,
                   lastCapture, clientAtCall, last>>
    /\ UNCHANGED <<sawHolder, waitsFor>>
    /\ UNCHANGED raced
    /\ UNCHANGED <<regVars, rtVars>>

\* atomic.StoreInt32(queue.isLocked, 0); if isL == 2 { queue.wait <- true }
DeactivateStore(c) ==
    /\ pc[c] = "d_store0"
    /\ isLocked' = 0
    /\ pc' = [pc EXCEPT ![c] = IF isL[c] = 2 THEN "d_send" ELSE "d_body"]
    /\ UNCHANGED <<isL, kind, cl, DefaultTransport,
                   Initial, oldTransport, oldClient, clientTransport, ambientAtCall,
                   lastCapture, clientAtCall, last>>
    /\ UNCHANGED <<sawHolder, waitsFor>>
    /\ UNCHANGED raced
    /\ UNCHANGED <<calls, regVars, rtVars>>

\* DeactivateBody that also empties the registry of Transports.Default
DeactivateBodyResets(c) ==
    /\ pc[c] = "d_body"
    /\ DefaultTransport' = Initial
    /\ clientTransport' = IF oldClient # Nil
                          THEN [clientTransport EXCEPT ![oldClient] = oldTransport]
                          ELSE clientTransport
    /\ pc' = [pc EXCEPT ![c] = "out"]
    /\ isL' = [isL EXCEPT ![c] = 0]
    /\ kind' = [kind EXCEPT ![c] = "none"]
    /\ cl' = [cl EXCEPT ![c] = Nil]
    /\ clientAtCall' = [clientAtCall EXCEPT ![c] = Nil]
    /\ last' = [op |-> "Deactivate", caller |-> c, kind |-> kind[c], client |-> cl[c],
                clientWas |-> clientAtCall[c]]
    /\ UNCHANGED <<isLocked, Initial, oldTransport, oldClient, ambientAtCall, lastCapture>>
    /\ sawHolder' = [sawHolder EXCEPT ![c] = FALSE]
    /\ waitsFor' = [waitsFor EXCEPT ![c] = {}]
    /\ UNCHANGED raced
    /\ responders' = << >>
    /\ noResponder' = Nil
    /\ UNCHANGED <<calls, registered, resetFrom, rtVars>>

\* Deactivate's critical section, from oldHTTPGlobals.Lock() and
\* Transports.Lock() to the deferred unlocks, as one step
DeactivateBody(c) ==
    /\ pc[c] = "d_body"
    /\ DefaultTransport' = Initial
    /\ clientTransport' = IF oldClient # Nil
                          THEN [clientTransport EXCEPT ![oldClient] = oldTransport]
                          ELSE clientTransport
    /\ pc' = [pc EXCEPT ![c] = "out"]
    /\ isL' = [isL EXCEPT ![c] = 0]
    /\ kind' = [kind EXCEPT ![c] = "none"]
    /\ cl' = [cl EXCEPT ![c] = Nil]
    /\ clientAtCall' = [clientAtCall EXCEPT ![c] = Nil]
    /\ last' = [op |-> "Deactivate", caller |-> c, kind |-> kind[c], client |-> cl[c],
                clientWas |-> clientAtCall[c]]
    /\ UNCHANGED <<isLocked, Initial, oldTransport, oldClient, ambientAtCall, lastCapture>>
    /\ sawHolder' = [sawHolder EXCEPT ![c] = FALSE]
    /\ waitsFor' = [waitsFor EXCEPT ![c] = {}]
    /\ UNCHANGED raced
    /\ UNCHANGED <<calls, regVars, rtVars>>

\* user code replaces http.DefaultTransport between sessions
\* (TestMockTransportInitialTransport: http.DefaultTransport = tripper)
SetDefaultTransport(t) ==
    /\ AllOut
    /\ calls < MaxCalls
    /\ calls' = calls + 1
    /\ DefaultTransport # t
    /\ DefaultTransport' = t
    /\ last' = NoOp
    /\ UNCHANGED <<isLocked, pc, isL, kind, cl, Initial,
                   oldTransport, oldClient, clientTransport, ambientAtCall,
                   lastCapture, clientAtCall>>
    /\ UNCHANGED <<sawHolder, waitsFor>>
    /\ UNCHANGED raced
    /\ UNCHANGED <<regVars, rtVars>>

\* user code gives a custom client another transport between sessions
SetClientTransport(k, t) ==
    /\ AllOut
    /\ calls < MaxCalls
    /\ calls' = calls + 1
    /\ clientTransport[k] # t
    /\ clientTransport' = [clientTransport EXCEPT ![k] = t]
    /\ last' = NoOp
    /\ UNCHANGED <<isLocked, pc, isL, kind, cl, DefaultTransport,
                   Initial, oldTransport, oldClient, ambientAtCall,
                   lastCapture, clientAtCall>>
    /\ UNCHANGED <<sawHolder, waitsFor>>
    /\ UNCHANGED raced
    /\ UNCHANGED <<regVars, rtVars>>

Next ==
    \/ \E c \in Callers : ActivateLoad(c)
    \/ \E c \in Callers, k \in Clients : ActivateNonDefaultLoad(c, k)
    \/ \E c \in Callers : GateStoreWaiting(c)
    \/ \E c \in Callers : GateStoreHeld(c)
    \/ \E d \in Callers, a \in Callers : HandOff(d, a)
    \/ \E c \in Callers : ActivateBody(c)
    \/ \E c \in Callers : ActivateNonDefaultBody(c)
    \/ \E c \in Callers : DeactivateLoad(c)
    \/ \E c \in Callers : DeactivateStore(c)
    \/ \E c \in Callers : DeactivateBody(c)
    \/ \E t \in RealTransports : SetDefaultTransport(t)
    \/ \E k \in Clients, t \in ClientTransports : SetClientTransport(k, t)

\* callers pair every Deactivate with their own earlier activation
Spec == Init /\ [][Next]_vars

NextFree ==
    \/ Next
    \/ \E c \in Callers : DeactivateInactiveLoad(c)

\* as Spec, and Deactivate may also be called while nothing is active
SpecFree == Init /\ [][NextFree]_vars

(***************************************************************************)
(* Properties of the activation machinery                                  *)
(***************************************************************************)
\* the caller's activation call has returned and its Deactivate has not started
InSession(c) == pc[c] = "in"

\* a default-mode session is open: its Activate has returned and its
\* Deactivate has not returned yet
DefaultSessionOpen ==
    \E a \in Callers :
        /\ kind[a] = "default"
        /\ pc[a] \in {"in", "d_store0", "d_send", "d_body"}

\* some caller's ActivateNonDefault(k) has been called and the matching
\* Deactivate has not returned yet
NonDefaultCallOpen(k) ==
    \E a \in Callers : kind[a] = "nondefault" /\ cl[a] = k /\ pc[a] # "out"

\* C1: at most one caller at a time is inside an activation session (the
\* admission gate has at most one holder).
C1_AtMostOneHolder ==
    \A a \in Callers : \A b \in Callers :
        (InSession(a) /\ InSession(b)) => a = b

\* C2: if caller A is inside a session when caller B calls Activate or
\* ActivateNonDefault, B's call does not return before A has called
\* Deactivate. Stated for the runs in which the gate has not let two
\* callers through at once (no two loads of 0 ahead of both stores of 1).
C2_BlocksUntilDeactivate ==
    [][\A b \in Callers :
          (~raced /\ ~InSession(b) /\ pc'[b] = "in") => waitsFor'[b] = {}]_vars

\* C3 (as a property of states): a caller that called Activate while another
\* caller held the session is never left blocked on queue.wait with every
\* other caller outside any call and any session, that is, with nobody left
\* to send on queue.wait.
C3_NoLostWakeup ==
    \A b \in Callers :
        (pc[b] = "a_wait" /\ sawHolder[b]) => \E a \in Callers : a # b /\ pc[a] # "out"

\* C4: from the return of a caller's Activate until that caller calls
\* Deactivate, http.DefaultTransport is the Mock Transport. Stated for the
\* runs in which the gate has not let two callers through at once.
C4_MockInstalledDuringSession ==
    \A c \in Callers :
        (~raced /\ InSession(c) /\ kind[c] = "default") => DefaultTransport = Mock

\* C5 as stated: after a Deactivate call returns, with no other
\* Activate/Deactivate in progress, http.DefaultTransport is the transport
\* that was the ambient default when the most recent Activate was called.
\* Stated for the returns that leave no session open.
C5_RestoresAmbientAtCall ==
    (last.op = "Deactivate" /\ AllOut /\ ambientAtCall # Nil)
        => DefaultTransport = ambientAtCall

\* C5 as amended: after a Deactivate call returns, with no other
\* Activate/Deactivate in progress, http.DefaultTransport is the transport
\* that the most recent capturing Activate found as the ambient default, a
\* capturing Activate being one that found the ambient default different
\* from the Mock Transport.
C5_RestoresLastCapture ==
    (last.op = "Deactivate" /\ NoCallInProgress /\ lastCapture # Nil)
        => DefaultTransport = lastCapture

\* C5 witness: a default-mode session that captured a transport installed by
\* user code between cycles has been closed, and that transport is restored.
C5_Witness ==
    /\ last.op = "Deactivate"
    /\ last.kind = "default"
    /\ NoCallInProgress
    /\ calls >= 3
    /\ lastCapture = "T2"
    /\ DefaultTransport = "T2"

\* C6: Deactivate leaves http.DefaultTransport unchanged whenever no
\* default-mode Activate session is open (a Deactivate called while inactive,
\* or one that closes an ActivateNonDefault session).
C6_DeactivateKeepsAmbient ==
    [][\A c \in Callers :
          (DeactivateBody(c) /\ ~DefaultSessionOpen)
              => DefaultTransport' = DefaultTransport]_vars

\* C7: while a caller is inside its ActivateNonDefault(client) session the
\* client's transport is the Mock Transport, and when the matching Deactivate
\* has returned the client's transport is the one it had when
\* ActivateNonDefault was called; for callers whose sessions were serialized
\* by the gate (it has not let two callers through at once).
C7_NonDefaultRoundTrip ==
    ~raced =>
        /\ \A c \in Callers :
              (InSession(c) /\ kind[c] = "nondefault") => clientTransport[cl[c]] = Mock
        /\ (last.op = "Deactivate" /\ last.kind = "nondefault")
              => clientTransport[last.client] = last.clientWas

\* C8: a Deactivate does not modify the transport of a client whose
\* ActivateNonDefault session is already closed (the redirected-client record
\* was cleared when that session was closed).
C8_ClosedClientUntouched ==
    [][\A c \in Callers : \A k \in Clients :
          (DeactivateBody(c) /\ ~NonDefaultCallOpen(k))
              => clientTransport'[k] = clientTransport[k]]_vars

(***************************************************************************)
(* MockTransport: transport.go lines 13-127.                               *)
(***************************************************************************)
\* req.URL.String(): the path, then '?' and the query when there is one
URLString(u) == IF u.query = NoQuery THEN u.path ELSE u.path \o QM \o u.query

\* strings.Contains(str, "?")
ContainsQM(str) == \E i \in 1..Len(str) : str[i] = "?"

\* strings.Split(str, "?")[0]: the text before the first '?'
RECURSIVE BeforeQM(_)
BeforeQM(str) ==
    IF str = << >> \/ Head(str) = "?"
    THEN << >>
    ELSE <<Head(str)>> \o BeforeQM(Tail(str))

\* the map key of a registration or lookup: method + " " + url
Key(method, url) == method \o SP \o url

\* what a Responder returns for a request: the model takes a Responder to be
\* a function of the request, and keeps which one answered
Out(g, req) == [by |-> g, req |-> req, err |-> Nil]

\* ConnectionFailure: return nil, NoResponderFound
ConnectionFailure(req) == [by |-> "ConnectionFailure", req |-> req, err |-> "NoResponderFound"]

\* m.responderForKey(key) on the map r
responderForKey(r, key) == IF key \in DOMAIN r THEN r[key] ELSE Nil

\* the Responder RoundTrip selects among m.responders (lines 47-56), Nil if none
SelectResponder(r, req) ==
    LET url == URLString(req.url)
        first == responderForKey(r, Key(req.method, url))
    IN  IF first = Nil /\ ContainsQM(url)
        THEN responderForKey(r, Key(req.method, BeforeQM(url)))
        ELSE first

\* RoundTripResult without the catch-all: an unmatched request always gets
\* the NoResponderFound error
RoundTripResultNoCatchAll(r, n, req) ==
    LET responder == SelectResponder(r, req)
    IN  IF responder # Nil
        THEN Out(responder, req)
        ELSE ConnectionFailure(req)

\* what m.RoundTrip(req) returns with m.responders = r and m.noResponder = n
RoundTripResult(r, n, req) ==
    LET responder == SelectResponder(r, req)
    IN  IF responder # Nil
        THEN Out(responder, req)
        ELSE IF n = Nil THEN ConnectionFailure(req) ELSE Out(n, req)

\* which Responder (or "ConnectionFailure") a RoundTrip executed in one piece
\* runs for req with m.responders = r and m.noResponder = n
SelectOutcome(r, n, req) == RoundTripResult(r, n, req).by

\* `allowed` once the registry has become (r, n)
Seen(r, n) ==
    IF rpc = "idle" THEN allowed ELSE allowed \cup {SelectOutcome(r, n, rreq)}

\* f with x bound to v
Bind(f, x, v) == [y \in (DOMAIN f) \cup {x} |-> IF y = x THEN v ELSE f[y]]

\* RegisterResponder that keeps the Responder a key already has
RegisterResponderFirstWins(method, url, g) ==
    /\ mu = "free"
    /\ \/ <<method, url>> \in DOMAIN registered
       \/ Cardinality(DOMAIN registered) < MaxBindings
    /\ responders' = IF Key(method, url) \in DOMAIN responders
                   THEN responders
                   ELSE Bind(responders, Key(method, url), g)
    /\ registered' = Bind(registered, <<method, url>>, g)
    /\ resetFrom' = NoReset
    /\ last' = [op |-> "RegisterResponder", method |-> method, url |-> url, g |-> g,
                had |-> (Key(method, url) \in DOMAIN responders),
                was |-> responderForKey(responders, Key(method, url)),
                lenWas |-> Cardinality(DOMAIN responders)]
    /\ allowed' = Seen(responders', noResponder)
    /\ UNCHANGED <<noResponder, mu, rpc, rreq, rresp>>
    /\ UNCHANGED actVars

\* m.RegisterResponder(method, url, responder); `last` keeps what the key
\* was bound to and what Len() would have returned before the call
RegisterResponder(method, url, g) ==
    /\ mu = "free"
    /\ \/ <<method, url>> \in DOMAIN registered
       \/ Cardinality(DOMAIN registered) < MaxBindings
    /\ responders' = Bind(responders, Key(method, url), g)
    /\ registered' = Bind(registered, <<method, url>>, g)
    /\ resetFrom' = NoReset
    /\ last' = [op |-> "RegisterResponder", method |-> method, url |-> url, g |-> g,
                had |-> (Key(method, url) \in DOMAIN responders),
                was |-> responderForKey(responders, Key(method, url)),
                lenWas |-> Cardinality(DOMAIN responders)]
    /\ allowed' = Seen(responders', noResponder)
    /\ UNCHANGED <<noResponder, mu, rpc, rreq, rresp>>
    /\ UNCHANGED actVars

\* m.RegisterNoResponder(responder)
RegisterNoResponder(g) ==
    /\ mu = "free"
    /\ noResponder' = g
    /\ resetFrom' = NoReset
    /\ last' = [op |-> "RegisterNoResponder", g |-> g]
    /\ allowed' = Seen(responders, g)
    /\ UNCHANGED <<responders, registered, mu, rpc, rreq, rresp>>
    /\ UNCHANGED actVars

\* Reset that forgets to clear the catch-all
ResetKeepsNoResponder ==
    /\ mu = "free"
    /\ responders' = << >>
    /\ noResponder' = noResponder
    /\ registered' = << >>
    /\ resetFrom' = [done |-> TRUE,
                     pairs |-> resetFrom.pairs \cup
                               {p \in DOMAIN registered : registered[p] # Nil}]
    /\ last' = [op |-> "Reset"]
    /\ allowed' = Seen(<< >>, noResponder')
    /\ UNCHANGED <<mu, rpc, rreq, rresp>>
    /\ UNCHANGED actVars

\* m.Reset() (the package's Reset() calls it on Transports.Default)
Reset ==
    /\ mu = "free"
    /\ responders' = << >>
    /\ noResponder' = Nil
    /\ registered' = << >>
    /\ resetFrom' = [done |-> TRUE,
                     pairs |-> resetFrom.pairs \cup
                               {p \in DOMAIN registered : registered[p] # Nil}]
    /\ last' = [op |-> "Reset"]
    /\ allowed' = Seen(<< >>, noResponder')
    /\ UNCHANGED <<mu, rpc, rreq, rresp>>
    /\ UNCHANGED actVars

\* m.Len()
MockTransportLen ==
    /\ mu = "free"
    /\ last' = [op |-> "Len", ret |-> Cardinality(DOMAIN responders)]
    /\ UNCHANGED <<regVars, rtVars>>
    /\ UNCHANGED actVars

\* m.HasNoResponder()
HasNoResponder ==
    /\ mu = "free"
    /\ last' = [op |-> "HasNoResponder", ret |-> (noResponder # Nil)]
    /\ UNCHANGED <<regVars, rtVars>>
    /\ UNCHANGED actVars

\* m.RoundTrip(req), called with no other call on m in progress
RoundTrip(req) ==
    /\ rpc = "idle"
    /\ last' = [op |-> "RoundTrip", req |-> req,
                ret |-> RoundTripResult(responders, noResponder, req)]
    /\ UNCHANGED <<regVars, rtVars>>
    /\ UNCHANGED actVars

NextRT ==
    \/ \E method \in Methods, url \in RegURLs, g \in Responders \cup {Nil} :
          RegisterResponder(method, url, g)
    \/ \E g \in NoResponders \cup {Nil} : RegisterNoResponder(g)
    \/ Reset
    \/ MockTransportLen
    \/ HasNoResponder
    \/ \E req \in Requests : RoundTrip(req)

\* one MockTransport used by one goroutine at a time
SpecRT == Init /\ [][NextRT]_vars

(***************************************************************************)
(* Properties of the dispatch                                              *)
(***************************************************************************)
\* the request of the RoundTrip call that returned last, as a (method, url
\* string) pair
LastPair == <<last.req.method, URLString(last.req.url)>>

\* the same with the url cut before its first '?'
LastStrippedPair == <<last.req.method, BeforeQM(URLString(last.req.url))>>

\* the (method, url) pair p is registered with a (non-nil) Responder
Bound(p) == p \in DOMAIN registered /\ registered[p] # Nil

\* C9: for every (method, url, generator) triple currently registered,
\* RoundTrip on a request with exactly that method and url returns that
\* generator's output unchanged.
C9_ExactMatchWins ==
    (last.op = "RoundTrip" /\ Bound(LastPair))
        => last.ret = Out(registered[LastPair], last.req)

\* C10: when nothing is registered for the exact (method, url) pair and the
\* url contains '?', RoundTrip returns the output of the generator registered
\* for (same method, url cut before the first '?') if there is one, and the
\* NoResponderFound sentinel if there is none and no catch-all is set (a
\* registration under another method is never matched).
C10_QueryFallbackSameMethod ==
    (/\ last.op = "RoundTrip"
     /\ LastPair \notin DOMAIN registered
     /\ ContainsQM(URLString(last.req.url)))
        => /\ Bound(LastStrippedPair)
                => last.ret = Out(registered[LastStrippedPair], last.req)
           /\ (LastStrippedPair \notin DOMAIN registered /\ noResponder = Nil)
                => last.ret = ConnectionFailure(last.req)

\* the key string k is bound to a (non-nil) Responder in m.responders
KeyBound(k) == k \in DOMAIN responders /\ responders[k] # Nil

\* the key of the request of the RoundTrip call that returned last
LastKey == Key(last.req.method, URLString(last.req.url))

\* the same with the url cut before its first '?'
LastStrippedKey == Key(last.req.method, BeforeQM(URLString(last.req.url)))

\* C11: when neither the exact key nor the query-stripped key of the request
\* is bound in the registry, RoundTrip returns the catch-all Responder's
\* output if one is set and (no response, NoResponderFound) otherwise; and
\* RegisterNoResponder(nil) leaves the catch-all slot empty.
C11_CatchAllOrSentinel ==
    /\ (last.op = "RoundTrip" /\ ~KeyBound(LastKey) /\ ~KeyBound(LastStrippedKey))
          => last.ret = IF noResponder # Nil
                        THEN Out(noResponder, last.req)
                        ELSE ConnectionFailure(last.req)
    /\ (last.op = "RegisterNoResponder" /\ last.g = Nil) => noResponder = Nil

\* C11 witness: an unmatched request was answered by the catch-all while
\* another key of the registry is bound.
C11_Witness ==
    /\ last.op = "RoundTrip"
    /\ ~KeyBound(LastKey)
    /\ ~KeyBound(LastStrippedKey)
    /\ \E k \in DOMAIN responders : responders[k] # Nil
    /\ noResponder # Nil
    /\ last.ret = Out(noResponder, last.req)

C13_ReRegisterReplaces ==
    /\ last.op = "RegisterResponder"
          => /\ responders[Key(last.method, last.url)] = last.g
             /\ Cardinality(DOMAIN responders)
                   = IF last.had THEN last.lenWas ELSE last.lenWas + 1
    /\ (last.op = "RoundTrip" /\ KeyBound(LastKey))
          => last.ret = Out(responders[LastKey], last.req)

\* C13 witness: a key bound to G1 has just been bound to G2 while another
\* key is bound too, and Len() is what it was.
C13_Witness ==
    /\ last.op = "RegisterResponder"
    /\ last.was = "G1"
    /\ last.g = "G2"
    /\ last.lenWas = 2
    /\ Cardinality(DOMAIN responders) = 2
    /\ responders[Key(last.method, last.url)] = "G2"

\* C17: registry keys behave as (method, url) pairs: the registry has one
\* entry for each distinct pair registered since the last Reset (so Len() is
\* the number of those pairs), and each pair is still bound to the Responder
\* it was registered with last (registering another pair never replaces it).
C17_KeysArePairs ==
    /\ Cardinality(DOMAIN responders) = Cardinality(DOMAIN registered)
    /\ \A p \in DOMAIN registered :
          responderForKey(responders, Key(p[1], p[2])) = registered[p]

(***************************************************************************)
(* RoundTrip step by step (transport.go lines 46-71), with other           *)
(* goroutines calling RegisterResponder / RegisterNoResponder / Reset on   *)
(* the same MockTransport between its steps.  Every other method holds     *)
(* m.mu for one critical section, which is one step.                       *)
(***************************************************************************)
\* the method of the requests and registrations of SpecMu
OneMethod == {<<"G">>}

\* the urls registered in SpecMu: one with a query string, and what is left
\* of it when the query string is cut off
QueryURLs == {<<"b">>, <<"b", "?", "q">>}

\* the requests of SpecMu
QueryRequests ==
    [method : OneMethod, url : [path : {<<"b">>}, query : {NoQuery, <<"q">>}]]

\* where RoundTrip goes once `responder` is v, before (fallback = TRUE) or
\* after the lookup of the query-stripped key
AfterLookup(v, req, fallback) ==
    IF v = Nil /\ fallback /\ ContainsQM(URLString(req.url))
    THEN "rt_fallback"
    ELSE IF v # Nil THEN "rt_call" ELSE "rt_lock"

\* lines 47-50: url := req.URL.String();
\* responder := m.responderForKey(req.Method + " " + url)
RoundTripExact(req) ==
    /\ rpc = "idle"
    /\ mu = "free"
    /\ rreq' = req
    /\ rresp' = responderForKey(responders, Key(req.method, URLString(req.url)))
    /\ rpc' = AfterLookup(rresp', req, TRUE)
    /\ allowed' = {SelectOutcome(responders, noResponder, req)}
    /\ UNCHANGED <<mu, regVars, last>>
    /\ UNCHANGED actVars

\* lines 54-56: responder = m.responderForKey(req.Method + " " +
\* strings.Split(url, "?")[0])
RoundTripFallback ==
    /\ rpc = "rt_fallback"
    /\ mu = "free"
    /\ rresp' = responderForKey(responders,
                                Key(rreq.method, BeforeQM(URLString(rreq.url))))
    /\ rpc' = AfterLookup(rresp', rreq, FALSE)
    /\ UNCHANGED <<mu, rreq, allowed, regVars, last>>
    /\ UNCHANGED actVars

\* lines 59-60: responder(req) starts to run
RoundTripCall ==
    /\ rpc = "rt_call"
    /\ rpc' = "rt_gen"
    /\ UNCHANGED <<mu, rreq, rresp, allowed, regVars, last>>
    /\ UNCHANGED actVars

\* line 63: m.mu.Lock()
RoundTripLock ==
    /\ rpc = "rt_lock"
    /\ mu = "free"
    /\ mu' = "RoundTrip"
    /\ rpc' = "rt_locked"
    /\ UNCHANGED <<rreq, rresp, allowed, regVars, last>>
    /\ UNCHANGED actVars

\* lines 67-69: m.noResponder is nil, return ConnectionFailure(req); the
\* deferred m.mu.Unlock() runs
RoundTripConnectionFailure ==
    /\ rpc = "rt_locked"
    /\ noResponder = Nil
    /\ last' = [op |-> "RoundTrip", req |-> rreq, ret |-> ConnectionFailure(rreq),
                allowed |-> allowed]
    /\ mu' = "free"
    /\ rpc' = "idle"
    /\ rreq' = Nil
    /\ rresp' = Nil
    /\ allowed' = {}
    /\ UNCHANGED regVars
    /\ UNCHANGED actVars

\* line 70: m.noResponder(req) starts to run
RoundTripNoResponder ==
    /\ rpc = "rt_locked"
    /\ noResponder # Nil
    /\ rresp' = noResponder
    /\ rpc' = "rt_gen"
    /\ UNCHANGED <<mu, rreq, allowed, regVars, last>>
    /\ UNCHANGED actVars

\* the Responder returns and RoundTrip returns what it returned (line 60 or
\* line 70, where the deferred m.mu.Unlock() runs)
RoundTripReturn ==
    /\ rpc = "rt_gen"
    /\ last' = [op |-> "RoundTrip", req |-> rreq, ret |-> Out(rresp, rreq),
                allowed |-> allowed]
    /\ mu' = "free"
    /\ rpc' = "idle"
    /\ rreq' = Nil
    /\ rresp' = Nil
    /\ allowed' = {}
    /\ UNCHANGED regVars
    /\ UNCHANGED actVars

NextMu ==
    \/ \E method \in OneMethod, url \in QueryURLs, g \in Responders \cup {Nil} :
          RegisterResponder(method, url, g)
    \/ \E g \in NoResponders \cup {Nil} : RegisterNoResponder(g)
    \/ Reset
    \/ \E req \in QueryRequests : RoundTripExact(req)
    \/ RoundTripFallback
    \/ RoundTripCall
    \/ RoundTripLock
    \/ RoundTripConnectionFailure
    \/ RoundTripNoResponder
    \/ RoundTripReturn

\* one RoundTrip in progress while other goroutines change the registry
SpecMu == Init /\ [][NextMu]_vars

\* C14: m.mu is not held while a Responder runs, whether RoundTrip found it
\* under the exact key, under the query-stripped key or in the catch-all
\* slot (so that the Responder, or another goroutine while the Responder
\* runs, can call RegisterResponder/Len/Reset on the same transport).
C14_NoLockDuringGenerator == rpc = "rt_gen" => mu = "free"

\* C20: the Responder RoundTrip ran (or the NoResponderFound outcome) is what
\* the exact -> query-stripped -> catch-all -> NoResponderFound precedence
\* selects in one of the registry states that existed between the start of
\* the call and its return.
C20_RoundTripAtomic == last.op = "RoundTrip" => last.ret.by \in last.allowed

(***************************************************************************)
(* The package-level facade (transport.go lines 270-319) on                *)
(* Transports.Default, called while callers activate and deactivate.       *)
(***************************************************************************)
\* the activation variables but `calls`
sessionVars == <<isLocked, pc, isL, kind, cl, DefaultTransport, Initial,
                 oldTransport, oldClient, clientTransport, ambientAtCall,
                 lastCapture, clientAtCall, sawHolder, waitsFor, raced>>

\* the (method, url) pair registered through the facade
PkgMethods == {<<"G">>}

PkgURLs == {<<"b">>}

\* RegisterResponder(method, url, responder): Transports.Lock(), then
\* Transports.Default.RegisterResponder(method, url, responder)
PkgRegisterResponder(method, url, g) ==
    /\ calls < MaxCalls
    /\ calls' = calls + 1
    /\ mu = "free"
    /\ responders' = Bind(responders, Key(method, url), g)
    /\ registered' = Bind(registered, <<method, url>>, g)
    /\ resetFrom' = NoReset
    /\ last' = [op |-> "RegisterResponder", method |-> method, url |-> url, g |-> g]
    /\ UNCHANGED <<noResponder, rtVars>>
    /\ UNCHANGED sessionVars

\* RegisterNoResponder(responder): Transports.Lock(), then
\* Transports.Default.RegisterNoResponder(responder)
PkgRegisterNoResponder(g) ==
    /\ calls < MaxCalls
    /\ calls' = calls + 1
    /\ mu = "free"
    /\ noResponder' = g
    /\ resetFrom' = NoReset
    /\ last' = [op |-> "RegisterNoResponder", g |-> g]
    /\ UNCHANGED <<responders, registered, rtVars>>
    /\ UNCHANGED sessionVars

\* Reset(): Transports.Lock(), then Transports.Default.Reset()
PkgReset ==
    /\ calls < MaxCalls
    /\ calls' = calls + 1
    /\ mu = "free"
    /\ responders' = << >>
    /\ noResponder' = Nil
    /\ registered' = << >>
    /\ resetFrom' = [done |-> TRUE,
                     pairs |-> resetFrom.pairs \cup
                               {p \in DOMAIN registered : registered[p] # Nil}]
    /\ last' = [op |-> "Reset"]
    /\ UNCHANGED rtVars
    /\ UNCHANGED sessionVars

NextPkg ==
    \/ Next
    \/ \E method \in PkgMethods, url \in PkgURLs, g \in Responders :
          PkgRegisterResponder(method, url, g)
    \/ \E g \in NoResponders : PkgRegisterNoResponder(g)
    \/ PkgReset

\* as Spec, with the facade called at any moment
SpecPkg == Init /\ [][NextPkg]_vars

\* C15: no step of Activate, ActivateNonDefault or Deactivate changes the
\* registry or the catch-all of Transports.Default (so a caller admitted
\* after another caller's session finds the bindings as they were left).
C15_ActivationKeepsRegistry ==
    [][(pc' # pc) => (responders' = responders /\ noResponder' = noResponder)]_vars

\* C15 witness: caller 2 called Activate while another caller's session was
\* open, is inside its own session now that the other caller is out, and
\* finds a Responder registered.
C15_Witness ==
    /\ InSession(2)
    /\ sawHolder[2]
    /\ pc[1] = "out"
    /\ \E k \in DOMAIN responders : responders[k] # Nil

\* C16: Transports.Initial is never the Mock Transport, whatever the
\* interleaving of Activate/ActivateNonDefault/Deactivate calls, also when
\* Activate runs its critical section with the mock already installed; so
\* Deactivate never installs the mock as http.DefaultTransport.
C16_InitialNeverMock == Initial # Mock

\* C16 witness: an Activate has just run its critical section and found the
\* Mock Transport installed as http.DefaultTransport.
C16_Witness ==
    /\ last.op = "Activate"
    /\ last.found = Mock
    /\ Initial # Mock

\* C19: whenever some caller is inside an activation session, queue.isLocked
\* is not 0 (the gate is not idle), also when that caller was admitted by a
\* hand-off from a releasing holder. Stated for the runs in which the gate
\* has not let two callers through at once.
C19_GateHeldDuringSession ==
    \A c \in Callers : (~raced /\ InSession(c)) => isLocked # 0

(***************************************************************************)
(* The activation machinery with one caller more than in Spec.             *)
(***************************************************************************)
WideCallers == 1..(NumCallers + 1)

InitWide ==
    /\ InitActOf(WideCallers)
    /\ InitReg
    /\ last = NoOp

NextWide ==
    \/ \E c \in WideCallers : ActivateLoad(c)
    \/ \E c \in WideCallers, k \in Clients : ActivateNonDefaultLoad(c, k)
    \/ \E c \in WideCallers : GateStoreWaiting(c)
    \/ \E c \in WideCallers : GateStoreHeld(c)
    \/ \E d \in WideCallers, a \in WideCallers : HandOff(d, a)
    \/ \E c \in WideCallers : ActivateBody(c)
    \/ \E c \in WideCallers : ActivateNonDefaultBody(c)
    \/ \E c \in WideCallers : DeactivateLoad(c)
    \/ \E c \in WideCallers : DeactivateStore(c)
    \/ \E c \in WideCallers : DeactivateBody(c)
    \/ \E t \in RealTransports : SetDefaultTransport(t)
    \/ \E k \in Clients, t \in ClientTransports : SetClientTransport(k, t)

\* as Spec, with the callers of WideCallers
SpecWide == InitWide /\ [][NextWide]_vars

\* C18 (as a property of states): a Deactivate that is about to send on
\* queue.wait (it loaded isL = 2) always has a caller that is blocked on
\* <-queue.wait or is on its way there (it has taken the waiting branch of
\* the gate), so that the send is received and Deactivate returns.
C18_SendMeetsWaiter ==
    \A d \in DOMAIN pc :
        pc[d] = "d_send" => \E a \in DOMAIN pc : pc[a] \in {"a_store2", "a_wait"}

====
